---- MODULE Spec2Model ----
(***************************************************************************)
(* Model of dummy_server.py: the FastAPI application with the routes       *)
(* GET /ip and GET /, both of which report _extract_client_ip(request).    *)
(*                                                                         *)
(* A Python str is a sequence of one-character strings.  An optional value *)
(* (the result of headers.get, request.client) is the empty tuple for None *)
(* and a one-element tuple <<v>> for a value v, so that the empty string   *)
(* << <<>> >> and None <<>> stay distinct, as they are in Python.          *)
(***************************************************************************)
EXTENDS Integers, Sequences, FiniteSets, TLC

\* ---------------------------------------------------------------- bounds
\* longest x-forwarded-for value enumerated by the single-request specification
MaxLen == 3
\* number of requests that can be in flight at once
NumRequests == 2

\* ------------------------------------------------------------ input sets
\* characters str.strip() removes (Python whitespace), as far as enumerated
Whitespace == {" ", "\t"}
\* characters a header value is built from
Alphabet == {"1", "2", ","} \cup Whitespace

None == <<>>
Some(v) == <<v>>

RECURSIVE StringsUpTo(_)
StringsUpTo(n) ==
    IF n = 0 THEN {<<>>}
    ELSE LET shorter == StringsUpTo(n - 1)
         IN  shorter \cup {Append(s, c) : s \in shorter, c \in Alphabet}

\* what request.headers.get("x-forwarded-for") can yield
HeaderValues == {None} \cup {Some(s) : s \in StringsUpTo(MaxLen)}
\* the values used when several requests are in flight
ConcHeaderValues ==
    {None, Some(<<>>), Some(<<" ">>), Some(<<" ", "1", ",", "2">>)}

\* transport peers: request.client is None or Address(host, port)
Hosts == {<<"7">>, <<" ", "7", ",", "8">>}
Ports == {<<"5">>, <<"6">>}
Clients == {None} \cup {Some([host |-> h, port |-> p]) : h \in Hosts, p \in Ports}
ConcClients == {None, Some([host |-> <<"7">>, port |-> <<"5">>]),
                Some([host |-> <<" ", "7", ",", "8">>, port |-> <<"6">>])}

Paths == {"/ip", "/"}
Slots == 1..NumRequests

\* ----------------------------------------------------------------- state
VARIABLES
    pc,             \* position of each request's handler
    path,           \* route the request was sent to
    headers,        \* the request's x-forwarded-for header, None when absent
    client,         \* the request's transport peer, None when absent
    forwarded_for,  \* local of _extract_client_ip (line 7)
    retline,        \* return statement _extract_client_ip left through (0: none yet)
    result,         \* value returned by _extract_client_ip
    response        \* response sent by the route handler

vars == <<pc, path, headers, client, forwarded_for, retline, result, response>>

\* --------------------------------------------------- str methods (Python)
\* index of the first occurrence of sep in s, 0 when there is none
RECURSIVE find(_, _, _)
find(s, sep, i) ==
    IF i > Len(s) THEN 0
    ELSE IF s[i] = sep THEN i
    ELSE find(s, sep, i + 1)

\* str.split(sep): the list of the pieces between the separators
RECURSIVE split(_, _)
split(s, sep) ==
    LET i == find(s, sep, 1)
    IN  IF i = 0 THEN <<s>>
        ELSE <<SubSeq(s, 1, i - 1)>> \o split(SubSeq(s, i + 1, Len(s)), sep)

RECURSIVE lstrip(_)
lstrip(s) ==
    IF s # <<>> /\ s[1] \in Whitespace THEN lstrip(Tail(s)) ELSE s

RECURSIVE rstrip(_)
rstrip(s) ==
    IF s # <<>> /\ s[Len(s)] \in Whitespace
        THEN rstrip(SubSeq(s, 1, Len(s) - 1))
        ELSE s

\* variant: only the leading whitespace is removed
strip_leading_only(s) == lstrip(s)

\* str.strip() with no argument
strip(s) == rstrip(lstrip(s))

\* variant: the test is "header exists" alone
truthy_str_present_only(v) == v # None

\* variant: the test is applied to the trimmed value
truthy_str_after_strip(v) == v # None /\ strip(v[1]) # <<>>

\* truth value of an Optional[str]: None and "" are false
truthy_str(v) == v # None /\ Len(v[1]) > 0

\* truth value of request.client: None is false, an Address is true
truthy_client(c) == c # None

\* --------------------------------------------------------- request access
\* variant: the header is kept in one place shared by all handlers
request_headers_get_shared(r) == headers[1]

\* line 7: request.headers.get("x-forwarded-for") of this handler's request
request_headers_get(r) == headers[r]

\* variant: the peer is kept in one place shared by all handlers
request_client_shared(r) == client[1]

\* lines 10-11: request.client of this handler's request
request_client(r) == client[r]

\* variant: a different sentinel
unknown_empty == <<>>

\* line 12: the literal "unknown"
unknown == <<"u", "n", "k", "n", "o", "w", "n">>

\* line 9: forwarded_for.split(",")[0].strip()
first_forwarded(v) == strip(split(v, ",")[1])

\* variant: the host is trimmed like the header element
client_host_stripped(c) == strip(c[1].host)

\* line 11: request.client.host
client_host(c) == c[1].host

\* ------------------------------------------------------------------ Init
Init ==
    /\ pc = [r \in Slots |-> "idle"]
    /\ path = [r \in Slots |-> "/"]
    /\ headers = [r \in Slots |-> None]
    /\ client = [r \in Slots |-> None]
    /\ forwarded_for = [r \in Slots |-> None]
    /\ retline = [r \in Slots |-> 0]
    /\ result = [r \in Slots |-> None]
    /\ response = [r \in Slots |-> None]

\* --------------------------------------------------------------- actions
\* the framework routes an inbound GET to get_ip or root
Receive(r, H, C) ==
    /\ pc[r] = "idle"
    /\ \E p \in Paths, h \in H, c \in C :
        /\ path' = [path EXCEPT ![r] = p]
        /\ headers' = [headers EXCEPT ![r] = h]
        /\ client' = [client EXCEPT ![r] = c]
    /\ pc' = [pc EXCEPT ![r] = "line7"]
    /\ UNCHANGED <<forwarded_for, retline, result, response>>

\* line 7: forwarded_for = request.headers.get("x-forwarded-for")
LookupForwardedFor(r) ==
    /\ pc[r] = "line7"
    /\ forwarded_for' = [forwarded_for EXCEPT ![r] = request_headers_get(r)]
    /\ pc' = [pc EXCEPT ![r] = "line8"]
    /\ UNCHANGED <<path, headers, client, retline, result, response>>

\* lines 8-9: if forwarded_for: return forwarded_for.split(",")[0].strip()
ReturnForwarded(r) ==
    /\ pc[r] = "line8"
    /\ truthy_str(forwarded_for[r])
    /\ result' = [result EXCEPT ![r] = Some(first_forwarded(forwarded_for[r][1]))]
    /\ retline' = [retline EXCEPT ![r] = 9]
    /\ pc' = [pc EXCEPT ![r] = "returned"]
    /\ UNCHANGED <<path, headers, client, forwarded_for, response>>

\* variant: the peer is consulted without regard to the forwarded header
ReturnClientHost_no_priority(r) ==
    /\ pc[r] = "line8"
    /\ truthy_client(request_client(r))
    /\ result' = [result EXCEPT ![r] = Some(client_host(request_client(r)))]
    /\ retline' = [retline EXCEPT ![r] = 11]
    /\ pc' = [pc EXCEPT ![r] = "returned"]
    /\ UNCHANGED <<path, headers, client, forwarded_for, response>>

\* lines 10-11: if request.client: return request.client.host
ReturnClientHost(r) ==
    /\ pc[r] = "line8"
    /\ ~truthy_str(forwarded_for[r])
    /\ truthy_client(request_client(r))
    /\ result' = [result EXCEPT ![r] = Some(client_host(request_client(r)))]
    /\ retline' = [retline EXCEPT ![r] = 11]
    /\ pc' = [pc EXCEPT ![r] = "returned"]
    /\ UNCHANGED <<path, headers, client, forwarded_for, response>>

\* line 12: return "unknown"
ReturnUnknown(r) ==
    /\ pc[r] = "line8"
    /\ ~truthy_str(forwarded_for[r])
    /\ ~truthy_client(request_client(r))
    /\ result' = [result EXCEPT ![r] = Some(unknown)]
    /\ retline' = [retline EXCEPT ![r] = 12]
    /\ pc' = [pc EXCEPT ![r] = "returned"]
    /\ UNCHANGED <<path, headers, client, forwarded_for, response>>

\* line 17: return {"ip": _extract_client_ip(request)}
get_ip_body(ip) == [ip |-> ip]

\* variant: root answers with the body of get_ip
root_body_no_message(ip) == [ip |-> ip]

\* line 22: return {"message": "ok", "ip": _extract_client_ip(request)}
root_body(ip) == [message |-> "ok", ip |-> ip]

\* a handler that returns a dict is answered with status 200
get_ip(r) ==
    /\ pc[r] = "returned"
    /\ path[r] = "/ip"
    /\ response' = [response EXCEPT
                      ![r] = Some([status |-> 200, body |-> get_ip_body(result[r][1])])]
    /\ pc' = [pc EXCEPT ![r] = "done"]
    /\ UNCHANGED <<path, headers, client, forwarded_for, retline, result>>

root(r) ==
    /\ pc[r] = "returned"
    /\ path[r] = "/"
    /\ response' = [response EXCEPT
                      ![r] = Some([status |-> 200, body |-> root_body(result[r][1])])]
    /\ pc' = [pc EXCEPT ![r] = "done"]
    /\ UNCHANGED <<path, headers, client, forwarded_for, retline, result>>

\* the request object and the handler's frame are discarded after the response
Discard(r) ==
    /\ pc[r] = "done"
    /\ pc' = [pc EXCEPT ![r] = "idle"]
    /\ path' = [path EXCEPT ![r] = "/"]
    /\ headers' = [headers EXCEPT ![r] = None]
    /\ client' = [client EXCEPT ![r] = None]
    /\ forwarded_for' = [forwarded_for EXCEPT ![r] = None]
    /\ retline' = [retline EXCEPT ![r] = 0]
    /\ result' = [result EXCEPT ![r] = None]
    /\ response' = [response EXCEPT ![r] = None]

\* -------------------------------------------------------- specifications
\* one request at a time, every header value up to MaxLen and every peer
Next ==
    \/ Receive(1, HeaderValues, Clients)
    \/ LookupForwardedFor(1)
    \/ ReturnForwarded(1)
    \/ ReturnClientHost(1)
    \/ ReturnUnknown(1)
    \/ get_ip(1)
    \/ root(1)
    \/ Discard(1)

Spec == Init /\ [][Next]_vars

\* up to NumRequests requests in flight, their handlers interleaved step by step
NextConc ==
    \/ \E r \in Slots : Receive(r, ConcHeaderValues, ConcClients)
    \/ \E r \in Slots : LookupForwardedFor(r)
    \/ \E r \in Slots : ReturnForwarded(r)
    \/ \E r \in Slots : ReturnClientHost(r)
    \/ \E r \in Slots : ReturnUnknown(r)
    \/ \E r \in Slots : get_ip(r)
    \/ \E r \in Slots : root(r)
    \/ \E r \in Slots : Discard(r)

SpecConc == Init /\ [][NextConc]_vars

TypeOK ==
    /\ pc \in [Slots -> {"idle", "line7", "line8", "returned", "done"}]
    /\ path \in [Slots -> Paths]
    /\ retline \in [Slots -> {0, 9, 11, 12}]

\* ------------------------------------------- vocabulary of the properties
\* _extract_client_ip has returned for the request in slot r
Resolved(r) == pc[r] \in {"returned", "done"}

\* the header is present and its value has non-zero length
HeaderUsable(h) == h # None /\ h[1] # <<>>

AllWhitespace(s) == \A i \in 1..Len(s) : s[i] \in Whitespace

\* p is the part of s before its first ',' (all of s when it has none)
IsFirstElement(p, s) ==
    /\ Len(p) <= Len(s)
    /\ p = SubSeq(s, 1, Len(p))
    /\ \A i \in 1..Len(p) : p[i] # ","
    /\ Len(p) < Len(s) => s[Len(p) + 1] = ","

\* t is p without its leading and trailing whitespace
IsTrimmed(t, p) ==
    \E i \in 1..(Len(p) + 1), j \in 0..Len(p) :
        /\ t = SubSeq(p, i, j)
        /\ AllWhitespace(SubSeq(p, 1, i - 1))
        /\ AllWhitespace(SubSeq(p, j + 1, Len(p)))
        /\ t # <<>> => t[1] \notin Whitespace /\ t[Len(t)] \notin Whitespace

\* x is the first element of the header value s, trimmed
IsFirstTrimmed(x, s) ==
    \E n \in 0..Len(s) :
        /\ IsFirstElement(SubSeq(s, 1, n), s)
        /\ IsTrimmed(x, SubSeq(s, 1, n))

\* the first element of the header value s is empty or whitespace only
FirstElementBlank(s) ==
    \E n \in 0..Len(s) :
        /\ IsFirstElement(SubSeq(s, 1, n), s)
        /\ AllWhitespace(SubSeq(s, 1, n))

\* x is the address a request with header h and peer c gets when handled alone
IsAddressOf(x, h, c) ==
    IF HeaderUsable(h) THEN IsFirstTrimmed(x, h[1])
    ELSE IF c # None THEN x = c[1].host
    ELSE x = <<"u", "n", "k", "n", "o", "w", "n">>

\* ------------------------------------------------------------------- C1
\* C1: whenever the x-forwarded-for header is present and non-empty, whatever
\* the peer, _extract_client_ip returns the part of the value before its first
\* ',' with leading and trailing whitespace removed, through the return of
\* line 9; nothing after the first comma and nothing of the peer enters it.
C1_FirstForwardedElement ==
    \A r \in Slots :
        (Resolved(r) /\ HeaderUsable(headers[r])) =>
            /\ retline[r] = 9
            /\ result[r] # None
            /\ IsFirstTrimmed(result[r][1], headers[r][1])

\* a header " 1,2"-like value (whitespace, element, comma, rest) was resolved
\* while a peer was available
C1_Witness ==
    \E r \in Slots :
        /\ Resolved(r)
        /\ client[r] # None
        /\ headers[r] = Some(<<" ", "1", ",">>)
        /\ result[r] = Some(<<"1">>)

\* ------------------------------------------------------------------- C2
\* C2: a request whose x-forwarded-for header is present but empty gets the
\* result of the same request without the header: the peer host when a peer is
\* available, and never the empty header value; any other request resolved
\* with the same peer and no header has the same result.
C2_EmptyHeaderIsAbsent ==
    \A r \in Slots :
        (Resolved(r) /\ headers[r] = Some(<<>>)) =>
            /\ result[r] # Some(<<>>)
            /\ client[r] # None => result[r] = Some(client[r][1].host)
            /\ \A q \in Slots :
                (Resolved(q) /\ headers[q] = None /\ client[q] = client[r]) =>
                    result[q] = result[r]

\* one request with an empty header and one without the header, same peer,
\* have both been resolved
C2_Witness ==
    \E r, q \in Slots :
        /\ Resolved(r) /\ headers[r] = Some(<<>>)
        /\ Resolved(q) /\ headers[q] = None
        /\ client[q] = client[r] /\ client[r] # None

\* ------------------------------------------------------------------- C3
\* C3: with the header absent or empty and a peer available, the result is the
\* peer's host exactly as given (not the port, not trimmed, not split),
\* through the return of line 11.
C3_PeerHostUnchanged ==
    \A r \in Slots :
        (Resolved(r) /\ ~HeaderUsable(headers[r]) /\ client[r] # None) =>
            /\ retline[r] = 11
            /\ result[r] = Some(client[r][1].host)
            /\ result[r] # Some(client[r][1].port)

\* a peer whose host has whitespace and a comma was resolved without a header
C3_Witness ==
    \E r \in Slots :
        /\ Resolved(r)
        /\ headers[r] = None
        /\ client[r] # None
        /\ client[r][1].host = <<" ", "7", ",", "8">>
        /\ result[r] = Some(<<" ", "7", ",", "8">>)

\* ------------------------------------------------------------------- C4
\* C4: with the header absent or empty and no peer, the result is the literal
\* "unknown", through the return of line 12.
C4_UnknownSentinel ==
    \A r \in Slots :
        (Resolved(r) /\ ~HeaderUsable(headers[r]) /\ client[r] = None) =>
            /\ retline[r] = 12
            /\ result[r] = Some(<<"u", "n", "k", "n", "o", "w", "n">>)

\* an empty header without a peer was resolved
C4_Witness ==
    \E r \in Slots :
        /\ Resolved(r)
        /\ headers[r] = Some(<<>>)
        /\ client[r] = None
        /\ retline[r] = 12

\* ------------------------------------------------------------------- C5
\* C5 as stated: the resolved address is a non-empty string for every header
\* value and every peer.
C5_AlwaysNonEmpty ==
    \A r \in Slots :
        Resolved(r) => result[r] # None /\ result[r][1] # <<>>

\* C5 as amended: for every header value and every peer that is absent or has
\* a non-empty host, the resolved address is a string, and it is the empty
\* string exactly when the header is non-empty and its first comma-separated
\* element is empty or whitespace only.
C5_NonEmptyUnlessBlankFirst ==
    \A r \in Slots :
        Resolved(r) =>
            /\ result[r] # None
            /\ result[r][1] = <<>> <=>
                (HeaderUsable(headers[r]) /\ FirstElementBlank(headers[r][1]))

\* a comma-leading header gave the empty string, and so the exception is real
C5_Witness ==
    \E r \in Slots :
        /\ Resolved(r)
        /\ headers[r] = Some(<<",", "1">>)
        /\ result[r] = Some(<<>>)

\* ------------------------------------------------------------------- C6
\* C6: at the branch point of _extract_client_ip exactly one of the three
\* branches can be taken, the one the priority order forwarded header, peer
\* host, "unknown" selects; a handler that has started can always take its
\* next step; and once it has returned, the result is a string.
BranchOf(h, c) ==
    IF HeaderUsable(h) THEN 9 ELSE IF c # None THEN 11 ELSE 12

C6_Total ==
    \A r \in Slots :
        /\ pc[r] = "line8" =>
            /\ forwarded_for[r] = headers[r]
            /\ ENABLED ReturnForwarded(r) <=> BranchOf(headers[r], client[r]) = 9
            /\ ENABLED ReturnClientHost(r) <=> BranchOf(headers[r], client[r]) = 11
            /\ ENABLED ReturnUnknown(r) <=> BranchOf(headers[r], client[r]) = 12
        /\ pc[r] = "line7" => ENABLED LookupForwardedFor(r)
        /\ pc[r] = "returned" => ENABLED get_ip(r) \/ ENABLED root(r)
        /\ Resolved(r) =>
            /\ retline[r] = BranchOf(headers[r], client[r])
            /\ result[r] # None
            /\ \A i \in 1..Len(result[r][1]) : result[r][1][i] \in STRING

\* a malformed header (only commas and whitespace) with a peer available
\* returned through line 9
C6_Witness ==
    \E r \in Slots :
        /\ Resolved(r)
        /\ headers[r] = Some(<<",", " ", ",">>)
        /\ client[r] # None
        /\ retline[r] = 9

\* ------------------------------------------------------------------- C7
\* C7: every response has status 200; the body of GET /ip has exactly the key
\* "ip", the body of GET / exactly the keys "message" (always "ok") and "ip";
\* in both the "ip" value is what _extract_client_ip returned, which is the
\* address of the request's own header and peer.
C7_Responses ==
    \A r \in Slots :
        pc[r] = "done" =>
            /\ response[r] # None
            /\ response[r][1].status = 200
            /\ path[r] = "/ip" => DOMAIN response[r][1].body = {"ip"}
            /\ path[r] = "/" =>
                /\ DOMAIN response[r][1].body = {"message", "ip"}
                /\ response[r][1].body.message = "ok"
            /\ response[r][1].body.ip = result[r][1]
            /\ IsAddressOf(response[r][1].body.ip, headers[r], client[r])

\* GET / answered {"message": "ok", "ip": "1"} for the header "1,2"
C7_Witness ==
    \E r \in Slots :
        /\ pc[r] = "done"
        /\ path[r] = "/"
        /\ headers[r] = Some(<<"1", ",", "2">>)
        /\ response[r] = Some([status |-> 200,
                               body |-> [message |-> "ok", ip |-> <<"1">>]])

\* ------------------------------------------------------------------- C8
\* C8: with several requests in flight in any interleaving, every response is
\* the one the request gets when handled alone, and a step of one handler
\* changes nothing that belongs to another request.
Frame(r) ==
    <<pc[r], path[r], headers[r], client[r], forwarded_for[r], retline[r],
      result[r], response[r]>>

C8_AloneResponse ==
    \A r \in Slots :
        pc[r] = "done" =>
            /\ response[r] # None
            /\ response[r][1].status = 200
            /\ DOMAIN response[r][1].body =
                 (IF path[r] = "/ip" THEN {"ip"} ELSE {"message", "ip"})
            /\ IsAddressOf(response[r][1].body.ip, headers[r], client[r])

C8_StepIsLocal ==
    \A r, q \in Slots :
        (r # q /\ Frame(r)' # Frame(r)) => Frame(q)' = Frame(q)

C8_Independent == []C8_AloneResponse /\ [][C8_StepIsLocal]_vars

\* two requests that differ in header and peer have both been answered
C8_Witness ==
    \E r, q \in Slots :
        /\ r # q
        /\ pc[r] = "done" /\ pc[q] = "done"
        /\ headers[r] # headers[q]
        /\ client[r] # None /\ client[q] = None
        /\ response[r][1].body.ip # response[q][1].body.ip

\* ------------------------------------------------------------------- C9
\* C9: two calls of _extract_client_ip with the same header and the same peer
\* return the same value, whatever was resolved before or meanwhile, and the
\* call changes neither the request it reads nor anything outside its frame.
C9_SameInputsSameOutput ==
    \A r, q \in Slots :
        (Resolved(r) /\ Resolved(q)
            /\ headers[r] = headers[q] /\ client[r] = client[q]) =>
                result[r] = result[q]

C9_NoSideEffect ==
    \A r \in Slots :
        (pc[r] \in {"line7", "line8"} /\ pc'[r] # pc[r]) =>
            /\ headers' = headers
            /\ client' = client
            /\ path' = path
            /\ response' = response
            /\ \A q \in Slots \ {r} : Frame(q)' = Frame(q)

C9_Pure == []C9_SameInputsSameOutput /\ [][C9_NoSideEffect]_vars

\* the same request (forwarded header, peer available) was resolved twice
C9_Witness ==
    \E r, q \in Slots :
        /\ r # q
        /\ Resolved(r) /\ Resolved(q)
        /\ headers[r] = headers[q] /\ HeaderUsable(headers[r])
        /\ client[r] = client[q] /\ client[r] # None
        /\ result[r] = result[q]

\* ------------------------------------------------------------------ C10
\* C10: the test "present and non-empty" is made on the raw header value: a
\* non-empty header whose first comma-separated element is empty or whitespace
\* only is resolved to the empty string through line 9, also when a peer is
\* available.
C10_BlankFirstElementGivesEmpty ==
    \A r \in Slots :
        (Resolved(r) /\ HeaderUsable(headers[r])
            /\ FirstElementBlank(headers[r][1])) =>
                /\ retline[r] = 9
                /\ result[r] = Some(<<>>)

\* the header " " was resolved to "" although a peer was available
C10_Witness ==
    \E r \in Slots :
        /\ Resolved(r)
        /\ headers[r] = Some(<<" ">>)
        /\ client[r] # None
        /\ result[r] = Some(<<>>)

====
